---- MODULE Spec2Model ----
(***************************************************************************)
(* A model of renku's dataset commands (renku/cli/dataset.py) and of the   *)
(* Zenodo export manager (renku/cli/_providers/zenodo.py).                 *)
(*                                                                         *)
(* Two specifications share the module:                                    *)
(*   SpecExport  one run of ZenodoExporter.export, one remote request      *)
(*               (and the validation of its response) per step;            *)
(*   Spec        the dataset commands create / add / unlink / delete /     *)
(*               ls-files, one command per step.                           *)
(***************************************************************************)
EXTENDS Integers, Sequences, FiniteSets, TLC

(***************************************************************************)
(* Bounds of the model.                                                    *)
(***************************************************************************)
\* longest list of dataset files handed to one export
MaxExportFiles == 2
\* longest "errors" list of a 400 response
MaxErrors == 2
\* most sources (urls) of one add command
MaxUrls == 2
\* most --target values of one add command
MaxTargets == 2
\* the sources added in one behaviour: the time runs from 0 to MaxClock
MaxClock == 2

VARIABLES
    \* ---- ZenodoExporter.export ----
    epc,            \* position inside export()
    export_files,   \* self.dataset.files, in order
    to_publish,     \* the argument of export()
    use_sandbox,    \* 'ZENODO_USE_SANDBOX' in os.environ
    requests,       \* the remote requests issued so far, with the status each got
    response,       \* the local variable `response`
    deposition_id,  \* the local variable `deposition_id`
    progress,       \* tqdm progress bar position
    returned,       \* the value export() returned
    raised,         \* the exception export() raised
    remote,         \* the deposition on the registry's side
    \* ---- dataset commands ----
    store,          \* the persisted datasets of the project, by name
    disk,           \* the files materialized under each dataset's directory
    clock,          \* the time, as the number of sources added so far
    last,           \* the last command: its arguments, its outcome, its output
    live,           \* per dataset, the paths added and not since removed
    \* ---- import from the registry ----
    ipc,            \* position inside the import, or "searched" after a search
    import_uri,     \* the uri find_record was called with
    is_doi,         \* ZenodoProvider.is_doi
    lookup_uri,     \* the uri get_record is called with
    lookups,        \* the record requests made so far, with the status each got
    zenodo_record,  \* the ZenodoRecordSerializer get_record returned
    jsonld,         \* the metadata get_jsonld returned
    imported,       \* the dataset as_dataset returned
    import_raised,  \* the exception the import raised
    searched,       \* the last search of Zenodo: its hits and its result
    \* ---- one add command, source by source ----
    apc,            \* position inside add()
    add_args,       \* the arguments of the command
    entered,        \* the dataset as the scope was entered with it
    cur,            \* the number of urls the progress bar has handed out
    pos,            \* the position of the progress bar
    running,        \* the handle, the disk, the time and the exception so far
    \* ---- one unlink or delete command, file by file ----
    upc,            \* position inside the command and unlink_files()
    unlink_args,    \* the command and the arguments unlink_files is called with
    handle,         \* the dataset the scope yielded
    to_unlink,      \* the local variable `files_to_unlink`
    removed,        \* the number of records remove_file was called for
    unlinked,       \* the number of files Path(file).unlink() has deleted
    on_disk,        \* the disk as it was when unlink_files was called
    unlink_raised   \* the exception the command raised

export_vars == <<epc, export_files, to_publish, use_sandbox, requests, response,
                 deposition_id, progress, returned, raised, remote>>

dataset_vars == <<store, disk, clock, last, live>>

import_vars == <<ipc, import_uri, is_doi, lookup_uri, lookups, zenodo_record, jsonld,
                 imported, import_raised, searched>>

add_vars == <<apc, add_args, entered, cur, pos, running>>

unlink_vars == <<upc, unlink_args, handle, to_unlink, removed, unlinked, on_disk,
                 unlink_raised>>

vars == <<export_vars, dataset_vars, import_vars, add_vars, unlink_vars>>

(***************************************************************************)
(* Helpers on sequences.                                                   *)
(***************************************************************************)
SeqsUpTo(S, n) == UNION {[1..k -> S] : k \in 0..n}

Range(s) == {s[i] : i \in 1..Len(s)}

IsPrefix(s, t) == Len(s) <= Len(t) /\ \A i \in 1..Len(s) : s[i] = t[i]

(***************************************************************************)
(* ZenodoExporter: URLs.  A URL is the tuple of the strings the code       *)
(* concatenates; str.format(deposition_id) puts the id in its place.       *)
(***************************************************************************)
ZENODO_BASE_URL == "https://zenodo.org/"
ZENODO_SANDBOX_URL == "https://sandbox.zenodo.org/"
API_PATH == "api/"
DEPOSIT_PATH == "deposit/"
PUBLISH_PATH == "record/"

zenodo_url == IF use_sandbox THEN ZENODO_SANDBOX_URL ELSE ZENODO_BASE_URL

new_deposit_url == <<zenodo_url, API_PATH, DEPOSIT_PATH, "depositions", 0, "">>

upload_file_url(id) == <<zenodo_url, API_PATH, DEPOSIT_PATH, "depositions/", id, "/files">>

attach_metadata_url(id) == <<zenodo_url, API_PATH, DEPOSIT_PATH, "depositions/", id, "">>

publish_url(id) == <<zenodo_url, API_PATH, DEPOSIT_PATH, "depositions/", id, "/actions/publish">>

published_at_deposit(id) == <<zenodo_url, DEPOSIT_PATH, id>>

published_at(id) == <<zenodo_url, PUBLISH_PATH, id>>

deposit_at(id) == <<zenodo_url, DEPOSIT_PATH, id>>

(***************************************************************************)
(* Responses of the registry.                                              *)
(***************************************************************************)
SuccessCodes == {200, 201, 202}

StatusCodes == {200, 201, 202, 204, 400, 401, 500}

DepositionIds == {11, 12}

ErrorEntries == {[field |-> "metadata.title", message |-> "required"],
                 [field |-> "metadata.creators", message |-> "too short"]}

Contents == {"Internal Server Error", "Access unauthorized - update access token."}

\* what a response of each status carries: an id (deposition creation), an
\* errors list (400), a body (anything else)
Responses(with_id) ==
    [status_code : SuccessCodes,
     id : IF with_id THEN DepositionIds ELSE {0},
     errors : {<<>>}, content : {""}]
    \cup [status_code : {400}, id : {0},
          errors : SeqsUpTo(ErrorEntries, MaxErrors), content : {""}]
    \cup [status_code : {401}, id : {0}, errors : {<<>>}, content : {""}]
    \cup [status_code : StatusCodes \ (SuccessCodes \cup {400, 401}), id : {0},
          errors : {<<>>}, content : Contents]

NoResponse == [status_code |-> 0, id |-> 0, errors |-> <<>>, content |-> ""]

(***************************************************************************)
(* ZenodoExporter._check_or_raise.  The exception is the record            *)
(*   exc    the exception class,                                           *)
(*   arg    the Python type of its argument (str, or bytes for             *)
(*          response.content),                                             *)
(*   text   the fixed part of the message,                                 *)
(*   lines  the formatted '"field" failed with "message"' lines joined     *)
(*          after the leading newline.                                     *)
(***************************************************************************)
NoError == [exc |-> "None", arg |-> "None", text |-> "", lines |-> <<>>]

HTTPError(arg, text, lines) ==
    [exc |-> "HTTPError", arg |-> arg, text |-> text, lines |-> lines]

\* '"{0}" failed with "{1}"'.format(err['field'], err['message'])
format_error(err) == <<"\"", err.field, "\" failed with \"", err.message, "\"">>

check_or_raise_401_as_generic(resp) ==
    IF resp.status_code \notin {200, 201, 202}
    THEN IF resp.status_code = 400
         THEN HTTPError("str", "\n",
                        [i \in 1..Len(resp.errors) |-> format_error(resp.errors[i])])
         ELSE HTTPError("bytes", resp.content, <<>>)
    ELSE NoError

_check_or_raise(resp) ==
    IF resp.status_code \notin {200, 201, 202}
    THEN IF resp.status_code = 401
         THEN HTTPError("str", "Access unauthorized - update access token.", <<>>)
         ELSE IF resp.status_code = 400
              THEN HTTPError("str", "\n",
                             [i \in 1..Len(resp.errors) |->
                                 format_error(resp.errors[i])])
              ELSE HTTPError("bytes", resp.content, <<>>)
    ELSE NoError

(***************************************************************************)
(* ZenodoExporter.export, one remote request per step.  A request of the   *)
(* log is the record of what was sent and of the status that came back.    *)
(***************************************************************************)
Request(kind, url, file, status) ==
    [kind |-> kind, url |-> url, file |-> file, status |-> status]

NoFile == ""

ExportFileNames == {"data/ds/a.txt", "data/ds/b.txt"}

NoLocation == <<"", "", 0>>

NoRemote == [created |-> FALSE, id |-> 0, files |-> <<>>, metadata |-> FALSE,
             published |-> FALSE]

\* the registry acts on a request exactly when it answers with a success status
Accepted(resp) == resp.status_code \in SuccessCodes

\* where export() goes after `ZenodoExporter._check_or_raise(response)`:
\* the statement that follows, or out of the method with the exception
unchecked(err, following) == following

checked(err, following) == IF err = NoError THEN following ELSE "raised"

\* the statement after the upload loop's body: the next file, or step 3
after_upload(i) == IF i < Len(export_files) THEN "upload_file" ELSE "attach_metadata"

\* step 4: `if to_publish:`
always_publish(publish) == "publish_deposition"

after_metadata(publish) == IF publish THEN "publish_deposition" ELSE "return_deposit_at"

ExportInit ==
    /\ epc = "idle"
    /\ export_files = <<>>
    /\ to_publish = FALSE
    /\ use_sandbox = FALSE
    /\ requests = <<>>
    /\ response = NoResponse
    /\ deposition_id = 0
    /\ progress = 0
    /\ returned = NoLocation
    /\ raised = NoError
    /\ remote = NoRemote

\* ZenodoProvider.get_exporter(dataset, secret) and the call export(to_publish)
get_exporter ==
    /\ UNCHANGED <<dataset_vars, import_vars, add_vars, unlink_vars>>
    /\ epc = "idle"
    /\ \E files \in SeqsUpTo(ExportFileNames, MaxExportFiles),
          publish \in BOOLEAN, sandbox \in BOOLEAN :
          /\ export_files' = files
          /\ to_publish' = publish
          /\ use_sandbox' = sandbox
    /\ epc' = "new_deposition"
    /\ UNCHANGED <<requests, response, deposition_id, progress, returned, raised,
                   remote>>

\* Step 1. Create new deposition
new_deposition ==
    /\ UNCHANGED <<dataset_vars, import_vars, add_vars, unlink_vars>>
    /\ epc = "new_deposition"
    /\ \E resp \in Responses(TRUE) :
          LET err == _check_or_raise(resp) IN
          /\ requests' = Append(requests,
                 Request("new_deposition", new_deposit_url, NoFile, resp.status_code))
          /\ response' = resp
          /\ remote' = IF Accepted(resp)
                       THEN [remote EXCEPT !.created = TRUE, !.id = resp.id]
                       ELSE remote
          /\ raised' = err
          /\ deposition_id' = IF err = NoError THEN resp.id ELSE deposition_id
          /\ epc' = checked(err, IF Len(export_files) > 0 THEN "upload_file"
                                 ELSE "attach_metadata")
    /\ UNCHANGED <<export_files, to_publish, use_sandbox, progress, returned>>

\* Step 2. Upload all files to created deposition (one file of the loop);
\* open(filepath, 'rb') raises before anything is sent when the file is gone
upload_file ==
    /\ UNCHANGED <<dataset_vars, import_vars, add_vars, unlink_vars>>
    /\ epc = "upload_file"
    /\ LET file_ == export_files[progress + 1] IN
       \/ /\ raised' = [exc |-> "FileNotFoundError", arg |-> "str", text |-> file_,
                        lines |-> <<>>]
          /\ epc' = "raised"
          /\ UNCHANGED <<requests, response, remote, progress>>
       \/ \E resp \in Responses(FALSE) :
             LET err == _check_or_raise(resp) IN
             /\ requests' = Append(requests,
                    Request("upload_file", upload_file_url(deposition_id), file_,
                            resp.status_code))
             /\ response' = resp
             /\ remote' = IF Accepted(resp)
                          THEN [remote EXCEPT !.files = Append(@, file_)]
                          ELSE remote
             /\ raised' = err
             /\ progress' = IF err = NoError THEN progress + 1 ELSE progress
             /\ epc' = checked(err, after_upload(progress + 1))
    /\ UNCHANGED <<export_files, to_publish, use_sandbox, deposition_id, returned>>

\* Step 3. Attach metadata to deposition
attach_metadata ==
    /\ UNCHANGED <<dataset_vars, import_vars, add_vars, unlink_vars>>
    /\ epc = "attach_metadata"
    /\ \E resp \in Responses(FALSE) :
          LET err == _check_or_raise(resp) IN
          /\ requests' = Append(requests,
                 Request("attach_metadata", attach_metadata_url(deposition_id), NoFile,
                         resp.status_code))
          /\ response' = resp
          /\ remote' = IF Accepted(resp) THEN [remote EXCEPT !.metadata = TRUE]
                       ELSE remote
          /\ raised' = err
          /\ epc' = checked(err, after_metadata(to_publish))
    /\ UNCHANGED <<export_files, to_publish, use_sandbox, deposition_id, progress,
                   returned>>

\* Step 4. Publish newly created deposition, and return its public location
publish_deposition ==
    /\ UNCHANGED <<dataset_vars, import_vars, add_vars, unlink_vars>>
    /\ epc = "publish_deposition"
    /\ \E resp \in Responses(FALSE) :
          LET err == _check_or_raise(resp) IN
          /\ requests' = Append(requests,
                 Request("publish_deposition", publish_url(deposition_id), NoFile,
                         resp.status_code))
          /\ response' = resp
          /\ remote' = IF Accepted(resp) THEN [remote EXCEPT !.published = TRUE]
                       ELSE remote
          /\ raised' = err
          /\ epc' = checked(err, "returned")
          /\ returned' = IF checked(err, "returned") = "returned"
                         THEN published_at(deposition_id) ELSE returned
    /\ UNCHANGED <<export_files, to_publish, use_sandbox, deposition_id, progress>>

\* `return self.deposit_at(deposition_id)`
return_deposit_at ==
    /\ UNCHANGED <<dataset_vars, import_vars, add_vars, unlink_vars>>
    /\ epc = "return_deposit_at"
    /\ returned' = deposit_at(deposition_id)
    /\ epc' = "returned"
    /\ UNCHANGED <<export_files, to_publish, use_sandbox, requests, response,
                   deposition_id, progress, raised, remote>>

ExportNext ==
    \/ get_exporter
    \/ new_deposition
    \/ upload_file
    \/ attach_metadata
    \/ publish_deposition
    \/ return_deposit_at

(***************************************************************************)
(* Properties of export.                                                   *)
(***************************************************************************)
\* what a request is and what it carries, without the status it got
Sent(r) == <<r.kind, r.file>>

SentSoFar == [i \in 1..Len(requests) |-> Sent(requests[i])]

\* the requests of a whole export, in the order the contract gives them
ExpectedRequests ==
    <<<<"new_deposition", NoFile>>>>
    \o [i \in 1..Len(export_files) |-> <<"upload_file", export_files[i]>>]
    \o <<<<"attach_metadata", NoFile>>>>
    \o (IF to_publish THEN <<<<"publish_deposition", NoFile>>>> ELSE <<>>)

\* C1: in every run of export the requests are issued in the order: one
\* create-deposition, one upload per dataset file in the dataset's file
\* order, one attach-metadata, then a publish iff publish is true (a run
\* that has returned has issued all of them, any run has issued a prefix of
\* them); and every request but the latest got a status validated as success.
C1_ExportRequestOrder ==
    /\ IsPrefix(SentSoFar, ExpectedRequests)
    /\ epc = "returned" => SentSoFar = ExpectedRequests
    /\ \A i \in 1..Len(requests) :
          i < Len(requests) \/ epc = "returned" => requests[i].status \in SuccessCodes
    /\ \A i \in 1..Len(requests) :
          requests[i].kind # "new_deposition" => requests[i].url[5] = remote.id

C1_Witness ==
    /\ epc = "returned"
    /\ to_publish
    /\ Len(export_files) = 2
    /\ export_files[1] # export_files[2]
    /\ Len(requests) = 5

\* C2: a step that gets a non-success status ends export there with an
\* error: its request is the last one sent (nothing follows it, it is not
\* sent again), no location is returned, and the files uploaded before it
\* are still attached to the deposition, which is not published.
C2_FailureStopsExport ==
    \A i \in 1..Len(requests) :
        requests[i].status \notin SuccessCodes =>
            /\ i = Len(requests)
            /\ epc = "raised"
            /\ raised.exc = "HTTPError"
            /\ returned = NoLocation
            /\ ~remote.published
            /\ remote.files = SubSeq(export_files, 1, progress)
            /\ Cardinality({j \in 1..Len(requests) : requests[j].kind = "upload_file"})
                   = progress + (IF requests[i].kind = "upload_file" THEN 1 ELSE 0)

C2_Witness ==
    /\ epc = "raised"
    /\ Len(requests) = 4
    /\ requests[4].kind = "attach_metadata"
    /\ requests[4].status = 500
    /\ Len(remote.files) = 2
    /\ remote.created

\* C3: export returns the public location <zenodo>/record/<id> exactly when
\* publish is true (and then the publish request succeeded), the draft
\* location <zenodo>/deposit/<id> exactly when publish is false, and <id> is
\* the id the create-deposition step returned.
C3_ReturnedLocation ==
    /\ returned # NoLocation => epc = "returned"
    /\ epc = "returned" =>
          /\ remote.created
          /\ to_publish =>
                /\ returned = <<zenodo_url, "record/", remote.id>>
                /\ requests[Len(requests)].kind = "publish_deposition"
                /\ requests[Len(requests)].status \in SuccessCodes
                /\ remote.published
          /\ ~to_publish =>
                /\ returned = <<zenodo_url, "deposit/", remote.id>>
                /\ \A i \in 1..Len(requests) : requests[i].kind # "publish_deposition"
                /\ ~remote.published

C3_Witness ==
    /\ epc = "returned"
    /\ to_publish
    /\ returned = <<"https://sandbox.zenodo.org/", "record/", 12>>

\* the kind of failure an exception of _check_or_raise stands for, read off
\* the exception alone
ErrorClass(e) ==
    IF e.exc # "HTTPError" THEN "none"
    ELSE IF e.arg = "bytes" THEN "generic"
    ELSE IF e.text = "Access unauthorized - update access token." THEN "authorization"
    ELSE IF e.text = "\n" THEN "validation"
    ELSE "unknown"

\* C4: the validation of a response: 200, 201, 202 raise nothing; 400 raises
\* the validation error with one field/message line per element of the
\* response's errors list; 401 raises the authorization error; every other
\* status raises the generic failure carrying the response body; and the
\* kind of failure can be told from the exception alone.
C4_StatusClassification ==
    response # NoResponse /\ raised.exc # "FileNotFoundError" =>
        /\ response.status_code \in {200, 201, 202} => raised = NoError /\ epc # "raised"
        /\ response.status_code = 400 =>
              /\ ErrorClass(raised) = "validation"
              /\ Len(raised.lines) = Len(response.errors)
              /\ \A i \in 1..Len(response.errors) :
                    /\ raised.lines[i][2] = response.errors[i].field
                    /\ raised.lines[i][4] = response.errors[i].message
              /\ epc = "raised"
        /\ response.status_code = 401 =>
              ErrorClass(raised) = "authorization" /\ epc = "raised"
        /\ response.status_code \notin {200, 201, 202, 400, 401} =>
              /\ ErrorClass(raised) = "generic"
              /\ raised.text = response.content
              /\ epc = "raised"

C4_Witness ==
    /\ epc = "raised"
    /\ response.status_code = 400
    /\ Len(response.errors) = 2
    /\ response.errors[1] # response.errors[2]
    /\ Len(raised.lines) = 2

(***************************************************************************)
(* Datasets.  A path is the sequence of its segments.  A dataset's file    *)
(* index (dataset.files) is an ordered mapping from path to file record:   *)
(* the sequence of its records, no two with the same path.                 *)
(***************************************************************************)
Names == {"ds"}

Last(s) == s[Len(s)]

IsSuffix(s, t) ==
    Len(s) <= Len(t) /\ \A i \in 1..Len(s) : s[i] = t[Len(t) - Len(s) + i]

DropPrefix(s, n) == SubSeq(s, n + 1, Len(s))

PathsOf(files) == [i \in 1..Len(files) |-> files[i].path]

Author == "author@git"

EmptyDataset == [files |-> <<>>, authors |-> <<>>]

NoDataset == [state |-> "nonexistent", files |-> <<>>, authors |-> <<>>]

DatasetFile(path, added, url) == [path |-> path, added |-> added, url |-> url]

(***************************************************************************)
(* The sources an add command can name (its urls), as the source resolver  *)
(* sees them: a kind and the natural paths of the files they hold.         *)
(***************************************************************************)
Urls == {"/tmp/a.txt", "git+ssh://host.io/namespace/project.git", "a", "/tmp/missing"}

\* "/tmp/a.txt" is a standalone file outside the project, the git repository
\* holds dir/x, dir/y and dir/sub/z, "a" is a file committed at the root of the
\* project itself (its natural path is the one relative to the dataset's
\* directory data/<name>/), and nothing is at "/tmp/missing"
Source(url) ==
    CASE url = "/tmp/a.txt" ->
            [kind |-> "file", entries |-> << <<"tmp", "a.txt">> >>]
      [] url = "git+ssh://host.io/namespace/project.git" ->
            [kind |-> "git",
             entries |-> << <<"dir", "x">>, <<"dir", "y">>, <<"dir", "sub", "z">> >>]
      [] url = "a" ->
            [kind |-> "repo", entries |-> << <<"..", "..", "..", "a">> >>]
      [] OTHER ->
            [kind |-> "missing", entries |-> <<>>]

\* the --target values of a command: none, or the first few of these
AllTargets == << <<"dir", "x">>, <<"dir", "y">>, <<"a.txt">> >>

TargetChoices == {SubSeq(AllTargets, 1, k) : k \in 0..MaxTargets}

\* --relative-to: absent (the empty path) or a directory
RelativeToChoices == {<<>>, <<"dir">>, <<"dir", "sub">>}

\* the glob patterns of unlink; delete uses '*'
Patterns == {<<"*">>, <<"dir", "*">>, <<"a.txt">>, <<"*", "y">>}

\* fnmatch-style matching, segment by segment: '*' stands for one or more
\* segments, anything else for itself
RECURSIVE Match(_, _)
Match(pattern, path) ==
    IF pattern = <<>> THEN path = <<>>
    ELSE IF Head(pattern) = "*"
         THEN \E k \in 1..Len(path) : Match(Tail(pattern), DropPrefix(path, k))
         ELSE /\ path # <<>>
              /\ Head(path) = Head(pattern)
              /\ Match(Tail(pattern), Tail(path))

(***************************************************************************)
(* client.with_dataset(name): the scope every command runs in.  Entering   *)
(* loads the dataset, or makes a new empty one when there is none (this is *)
(* all that `create` does); leaving it normally persists the dataset,      *)
(* leaving it with an exception persists nothing.  A deleted dataset is    *)
(* not opened again and its entry is not written back.                     *)
(***************************************************************************)
with_dataset_enter(name) ==
    IF store[name].state = "deleted"
    THEN [error |-> "DatasetDeletedError", dataset |-> EmptyDataset]
    ELSE [error |-> "None",
          dataset |-> [files |-> store[name].files, authors |-> store[name].authors]]

\* the exit of the scope writing the handle back whatever became of the entry
with_dataset_exit_always(st, name, dataset) ==
    [st EXCEPT ![name] = [state |-> "created", files |-> dataset.files,
                          authors |-> dataset.authors]]

with_dataset_exit(st, name, dataset) ==
    IF st[name].state = "deleted" THEN st
    ELSE [st EXCEPT ![name] = [state |-> "created", files |-> dataset.files,
                               authors |-> dataset.authors]]

(***************************************************************************)
(* Dataset registry: the file index.                                       *)
(***************************************************************************)
\* dataset.remove_file(DatasetFile(path=file, ...))
remove_file(files, path) == SelectSeq(files, LAMBDA r : r.path # path)

\* add(record) with the new record put where the one it supersedes was
add_file_in_place(files, record) ==
    IF record.path \in Range(PathsOf(files))
    THEN [i \in 1..Len(files) |->
             IF files[i].path = record.path THEN record ELSE files[i]]
    ELSE Append(files, record)

\* the registry's add(record): a record at a path of the index supersedes
\* the one there; records are kept in insertion order
add_file(files, record) == Append(remove_file(files, record.path), record)

\* client.files_to_unlink(dataset, glob): the paths of the index the glob
\* matches, in index order
files_to_unlink(dataset, glob) ==
    PathsOf(SelectSeq(dataset.files, LAMBDA r : Match(glob, r.path)))

(***************************************************************************)
(* client.add_data_to_dataset(dataset, url, target, relative_to, force):   *)
(* resolve the source, plan the destination of each of its entries,        *)
(* materialize them and commit their records.  `st` is the state of the    *)
(* running command: the dataset handle, the disk, the time, the number of  *)
(* sources done and the exception raised.                                  *)
(***************************************************************************)
\* the entries of the source the targets name (each target maps to one
\* entry, by matching suffix), or all its entries without targets
resolve(src, target) ==
    IF target = <<>> THEN [error |-> "None", entries |-> src.entries]
    ELSE IF \A i \in 1..Len(target) :
               \E j \in 1..Len(src.entries) : IsSuffix(target[i], src.entries[j])
         THEN [error |-> "None",
               entries |-> [i \in 1..Len(target) |->
                   src.entries[CHOOSE j \in 1..Len(src.entries) :
                                   IsSuffix(target[i], src.entries[j])]]]
         ELSE [error |-> "TargetMismatchError", entries |-> <<>>]

UnderRoot(relative_to, entry) ==
    IsPrefix(relative_to, entry) /\ Len(relative_to) < Len(entry)

\* the entries of a source that are planned: with a relative root, a git
\* repository gives the files under the root (the root names a directory of
\* the repository); every other source gives all its entries
planned(src, entries, relative_to) ==
    IF relative_to # <<>> /\ src.kind = "git"
    THEN SelectSeq(entries, LAMBDA e : UnderRoot(relative_to, e))
    ELSE entries

\* a source that is not a repository and has an entry outside the relative
\* root cannot be planned
root_mismatch(src, entries, relative_to) ==
    /\ relative_to # <<>>
    /\ src.kind # "git"
    /\ \E i \in 1..Len(entries) : ~UnderRoot(relative_to, entries[i])

\* the destination of an entry as its basename whatever the relative root
plan_basename(src, entry, relative_to) ==
    IF relative_to # <<>> \/ src.kind = "file" THEN <<Last(entry)>> ELSE entry

\* the destination of an entry: its natural path with the relative root
\* stripped; without one, the basename of a standalone file and the natural
\* path of a file of a tree
plan_path(src, entry, relative_to) ==
    IF relative_to # <<>> THEN DropPrefix(entry, Len(relative_to))
    ELSE IF src.kind = "file" THEN <<Last(entry)>>
    ELSE entry

Destinations(url, target, relative_to) ==
    LET src == Source(url)
        res == resolve(src, target)
        chosen == planned(src, res.entries, relative_to)
    IN  [i \in 1..Len(chosen) |-> plan_path(src, chosen[i], relative_to)]

RECURSIVE commit_records(_, _, _, _, _)
commit_records(files, dests, i, added, url) ==
    IF i > Len(dests) THEN files
    ELSE commit_records(add_file(files, DatasetFile(dests[i], added, url)),
                        dests, i + 1, added, url)

\* a path with a parent-directory segment
Traverses(path) == ".." \in Range(path)

\* add_data_to_dataset refusing a destination that leaves the dataset directory
add_data_confined(st, name, url, target, relative_to, force) ==
    LET src == Source(url)
        res == resolve(src, target)
        dests == Destinations(url, target, relative_to)
        present == Range(PathsOf(st.dataset.files))
        conflict ==
            \/ \E i \in 1..Len(dests) : dests[i] \in present
            \/ \E i, j \in 1..Len(dests) : i < j /\ dests[i] = dests[j]
    IN  IF src.kind = "missing" THEN [st EXCEPT !.error = "FileNotFoundError"]
        ELSE IF res.error # "None" THEN [st EXCEPT !.error = res.error]
        ELSE IF root_mismatch(src, res.entries, relative_to)
             THEN [st EXCEPT !.error = "RelativeRootMismatchError"]
        ELSE IF \E i \in 1..Len(dests) : Traverses(dests[i])
             THEN [st EXCEPT !.error = "PathTraversalError"]
        ELSE IF conflict /\ ~force
             THEN [st EXCEPT !.error = "DestinationConflictError"]
        ELSE [st EXCEPT
                 !.dataset.files = commit_records(@, dests, 1, st.clock + 1, url),
                 !.disk = @ \cup {<<name, dests[i]>> : i \in 1..Len(dests)},
                 !.clock = @ + 1,
                 !.done = @ + 1]

add_data_to_dataset(st, name, url, target, relative_to, force) ==
    LET src == Source(url)
        res == resolve(src, target)
        dests == Destinations(url, target, relative_to)
        present == Range(PathsOf(st.dataset.files))
        conflict ==
            \/ \E i \in 1..Len(dests) : dests[i] \in present
            \/ \E i, j \in 1..Len(dests) : i < j /\ dests[i] = dests[j]
    IN  IF src.kind = "missing" THEN [st EXCEPT !.error = "FileNotFoundError"]
        ELSE IF res.error # "None" THEN [st EXCEPT !.error = res.error]
        ELSE IF root_mismatch(src, res.entries, relative_to)
             THEN [st EXCEPT !.error = "RelativeRootMismatchError"]
        ELSE IF conflict /\ ~force
             THEN [st EXCEPT !.error = "DestinationConflictError"]
        ELSE [st EXCEPT
                 !.dataset.files = commit_records(@, dests, 1, st.clock + 1, url),
                 !.disk = @ \cup {<<name, dests[i]>> : i \in 1..Len(dests)},
                 !.clock = @ + 1,
                 !.done = @ + 1]

(***************************************************************************)
(* renku dataset add: the loop over the urls.                              *)
(***************************************************************************)
RECURSIVE add_first_url_only(_, _, _, _, _, _, _)
add_first_url_only(st, name, urls, i, target, relative_to, force) ==
    IF i > Len(urls) \/ i > 1 \/ st.error # "None" THEN st
    ELSE add_first_url_only(
             add_data_to_dataset(st, name, urls[i], target, relative_to, force),
             name, urls, i + 1, target, relative_to, force)

RECURSIVE add_urls(_, _, _, _, _, _, _)
add_urls(st, name, urls, i, target, relative_to, force) ==
    IF i > Len(urls) \/ st.error # "None" THEN st
    ELSE add_urls(add_data_to_dataset(st, name, urls[i], target, relative_to, force),
                  name, urls, i + 1, target, relative_to, force)

\* `except FileNotFoundError: raise BadParameter(...)`
add_error(error) == IF error = "FileNotFoundError" THEN "BadParameter" ELSE error

(***************************************************************************)
(* unlink_files(client, yes, dataset, glob, prompt): `prompt` says whether *)
(* a prompt function is supplied, `answer` what the user answers to it.    *)
(***************************************************************************)
\* the loop of dataset.remove_file over the first matched file only
remove_first_file_only(files, paths, i) ==
    IF paths = <<>> THEN files ELSE remove_file(files, paths[1])

RECURSIVE remove_files(_, _, _)
remove_files(files, paths, i) ==
    IF i > Len(paths) THEN files
    ELSE remove_files(remove_file(files, paths[i]), paths, i + 1)

\* the loop of Path(file).unlink(): a file that is not there raises
RECURSIVE unlink_paths(_, _, _, _)
unlink_paths(d, name, paths, i) ==
    IF i > Len(paths) THEN [disk |-> d, error |-> "None"]
    ELSE IF <<name, paths[i]>> \notin d THEN [disk |-> d, error |-> "FileNotFoundError"]
    ELSE unlink_paths(d \ {<<name, paths[i]>>}, name, paths, i + 1)

\* delete_confirm_prompt(files_to_unlink, dataset_name): the number of files
\* its text shows
delete_confirm_prompt(files) == Len(files)

unlink_files_unprompted(dataset, d, name, yes, glob, prompt, answer) ==
    LET matched == files_to_unlink(dataset, glob)
        gone == unlink_paths(d, name, matched, 1)
    IN  [dataset |-> [dataset EXCEPT !.files = remove_files(@, matched, 1)],
         disk |-> gone.disk,
         error |-> gone.error,
         prompted |-> FALSE,
         asked |-> -1,
         unlinked |-> matched]

unlink_files(dataset, d, name, yes, glob, prompt, answer) ==
    LET matched == files_to_unlink(dataset, glob)
        prompted == prompt /\ ~yes
        gone == unlink_paths(d, name, matched, 1)
    IN  IF prompted /\ ~answer
        THEN [dataset |-> dataset, disk |-> d, error |-> "Abort",
              prompted |-> TRUE, asked |-> delete_confirm_prompt(matched),
              unlinked |-> matched]
        ELSE [dataset |-> [dataset EXCEPT !.files = remove_files(@, matched, 1)],
              disk |-> gone.disk,
              error |-> gone.error,
              prompted |-> prompted,
              asked |-> IF prompted THEN delete_confirm_prompt(matched) ELSE -1,
              unlinked |-> matched]

(***************************************************************************)
(* client.delete_dataset(dataset, force): refuses a dataset with files     *)
(* unless forced, else removes the dataset's entry.                        *)
(***************************************************************************)
delete_dataset(st, name, dataset, force) ==
    IF dataset.files # <<>> /\ ~force
    THEN [error |-> "NonEmptyDatasetError", store |-> st]
    ELSE [error |-> "None",
          store |-> [st EXCEPT ![name] = [state |-> "deleted", files |-> <<>>,
                                          authors |-> <<>>]]]

(***************************************************************************)
(* The commands.  Each computes its outcome from the project's state:      *)
(* the store, disk and time it leaves, the exception it ends with, and     *)
(* what it reports.                                                        *)
(***************************************************************************)
Outcome(st, d, c, error) ==
    [store |-> st, disk |-> d, clock |-> c, error |-> error, done |-> 0,
     prompted |-> FALSE, asked |-> -1, output |-> <<>>, added |-> <<>>,
     reported |-> -1]

\* renku dataset create
create_outcome(st, d, c, name) ==
    LET opened == with_dataset_enter(name)
        dataset == opened.dataset
        authored == IF Author \in Range(dataset.authors) THEN dataset
                    ELSE [dataset EXCEPT !.authors = Append(@, Author)]
    IN  IF opened.error # "None" THEN Outcome(st, d, c, opened.error)
        ELSE Outcome(with_dataset_exit(st, name, authored), d, c, "None")

\* renku dataset ls-files: the rows of the table, one per value of
\* dataset.files, in the order of the mapping; `output` is the column of
\* the files and `added` the column of their added times
ls_files_outcome(st, d, c, name) ==
    LET opened == with_dataset_enter(name)
        files == opened.dataset.files
    IN  IF opened.error # "None" THEN Outcome(st, d, c, opened.error)
        ELSE [Outcome(with_dataset_exit(st, name, opened.dataset), d, c, "None")
                 EXCEPT !.output = PathsOf(files),
                        !.added = [i \in 1..Len(files) |-> files[i].added]]

\* renku dataset add
add_without_force(st, d, c, name, urls, target, relative_to, force) ==
    LET opened == with_dataset_enter(name)
        start == [dataset |-> opened.dataset, disk |-> d, clock |-> c, done |-> 0,
                  error |-> "None"]
        run == add_urls(start, name, urls, 1, target, relative_to, FALSE)
    IN  IF opened.error # "None" THEN Outcome(st, d, c, opened.error)
        ELSE IF run.error # "None"
             THEN [Outcome(st, run.disk, run.clock, add_error(run.error))
                      EXCEPT !.done = run.done]
        ELSE [Outcome(with_dataset_exit(st, name, run.dataset), run.disk, run.clock,
                      "None")
                 EXCEPT !.done = run.done]

add_one_target_per_url(st, d, c, name, urls, target, relative_to, force) ==
    LET opened == with_dataset_enter(name)
        start == [dataset |-> opened.dataset, disk |-> d, clock |-> c, done |-> 0,
                  error |-> "None"]
        run == add_urls(start, name, urls, 1, target, relative_to, force)
    IN  IF opened.error # "None" THEN Outcome(st, d, c, opened.error)
        ELSE IF target # <<>> /\ Len(target) # Len(urls)
             THEN Outcome(st, d, c, "TargetMismatchError")
        ELSE IF run.error # "None"
             THEN [Outcome(st, run.disk, run.clock, add_error(run.error))
                      EXCEPT !.done = run.done]
        ELSE [Outcome(with_dataset_exit(st, name, run.dataset), run.disk, run.clock,
                      "None")
                 EXCEPT !.done = run.done]

\* add persisting the records committed before a failure
add_keeping_partial(st, d, c, name, urls, target, relative_to, force) ==
    LET opened == with_dataset_enter(name)
        start == [dataset |-> opened.dataset, disk |-> d, clock |-> c, done |-> 0,
                  error |-> "None"]
        run == add_urls(start, name, urls, 1, target, relative_to, force)
    IN  IF opened.error # "None" THEN Outcome(st, d, c, opened.error)
        ELSE [Outcome(with_dataset_exit(st, name, run.dataset), run.disk, run.clock,
                      add_error(run.error))
                 EXCEPT !.done = run.done]

add_outcome(st, d, c, name, urls, target, relative_to, force) ==
    LET opened == with_dataset_enter(name)
        start == [dataset |-> opened.dataset, disk |-> d, clock |-> c, done |-> 0,
                  error |-> "None"]
        run == add_urls(start, name, urls, 1, target, relative_to, force)
    IN  IF opened.error # "None" THEN Outcome(st, d, c, opened.error)
        ELSE IF run.error # "None"
             THEN [Outcome(st, run.disk, run.clock, add_error(run.error))
                      EXCEPT !.done = run.done]
        ELSE [Outcome(with_dataset_exit(st, name, run.dataset), run.disk, run.clock,
                      "None")
                 EXCEPT !.done = run.done]

\* renku dataset unlink
unlink_outcome(st, d, c, name, pattern, yes, verbose, answer) ==
    LET opened == with_dataset_enter(name)
        run == unlink_files(opened.dataset, d, name, yes, pattern, TRUE, answer)
    IN  IF opened.error # "None" THEN Outcome(st, d, c, opened.error)
        ELSE IF run.error # "None"
             THEN [Outcome(st, run.disk, c, run.error)
                      EXCEPT !.prompted = run.prompted, !.asked = run.asked]
        ELSE [Outcome(with_dataset_exit(st, name, run.dataset), run.disk, c, "None")
                 EXCEPT !.prompted = run.prompted,
                        !.asked = run.asked,
                        !.output = run.unlinked,
                        !.reported = IF verbose THEN Len(run.unlinked) ELSE -1]

\* renku dataset delete
delete_unlink_first(st, d, c, name, force, verbose) ==
    LET opened == with_dataset_enter(name)
        run == unlink_files(opened.dataset, d, name, TRUE, <<"*">>, FALSE, FALSE)
        deleted == delete_dataset(st, name, run.dataset, force)
    IN  IF opened.error # "None" THEN Outcome(st, d, c, opened.error)
        ELSE IF run.error # "None" THEN Outcome(st, run.disk, c, run.error)
        ELSE [Outcome(with_dataset_exit(deleted.store, name, run.dataset), run.disk, c,
                      "None")
                 EXCEPT !.output = run.unlinked,
                        !.reported = IF verbose THEN Len(run.unlinked) ELSE -1]

delete_outcome(st, d, c, name, force, verbose) ==
    LET opened == with_dataset_enter(name)
        dataset == opened.dataset
        deleted == delete_dataset(st, name, dataset, force)
        run == unlink_files(dataset, d, name, TRUE, <<"*">>, FALSE, FALSE)
    IN  IF opened.error # "None" THEN Outcome(st, d, c, opened.error)
        ELSE IF deleted.error # "None" THEN Outcome(st, d, c, deleted.error)
        ELSE IF dataset.files # <<>>
             THEN IF run.error # "None"
                  THEN Outcome(deleted.store, run.disk, c, run.error)
                  ELSE [Outcome(with_dataset_exit(deleted.store, name, run.dataset),
                                run.disk, c, "None")
                           EXCEPT !.output = run.unlinked,
                                  !.reported = IF verbose THEN Len(run.unlinked)
                                               ELSE -1]
        \* `unlinked` is bound only when the dataset has files
        ELSE IF verbose THEN Outcome(deleted.store, d, c, "UnboundLocalError")
        ELSE Outcome(with_dataset_exit(deleted.store, name, dataset), d, c, "None")

(***************************************************************************)
(* The state of the project and the commands as actions.                   *)
(***************************************************************************)
Command(cmd, name, o) ==
    [cmd |-> cmd, name |-> name, error |-> o.error, urls |-> <<>>, target |-> <<>>,
     relative_to |-> <<>>, force |-> FALSE, yes |-> FALSE, verbose |-> FALSE,
     pattern |-> <<>>, declined |-> FALSE, prompted |-> o.prompted,
     asked |-> o.asked, output |-> o.output, added |-> o.added, done |-> o.done,
     reported |-> o.reported]

NoCommand ==
    Command("none", "", Outcome(<<>>, {}, 0, "None"))

DatasetInit ==
    /\ store = [n \in Names |-> NoDataset]
    /\ disk = {}
    /\ clock = 0
    /\ last = NoCommand
    /\ live = [n \in Names |-> {}]

\* the paths a command leaves added and not removed: those before it unless
\* it deleted the dataset
Remaining(o, name, paths) ==
    IF o.store[name].state = "deleted" THEN {} ELSE paths

Apply(o) ==
    /\ store' = o.store
    /\ disk' = o.disk
    /\ clock' = o.clock
    /\ UNCHANGED <<export_vars, import_vars, add_vars, unlink_vars>>

create ==
    \E name \in Names :
        \E o \in {create_outcome(store, disk, clock, name)} :
        /\ Apply(o)
        /\ last' = Command("create", name, o)
        /\ UNCHANGED live

ls_files ==
    \E name \in Names :
        \E o \in {ls_files_outcome(store, disk, clock, name)} :
        /\ Apply(o)
        /\ last' = Command("ls_files", name, o)
        /\ UNCHANGED live

add ==
    \E name \in Names, urls \in SeqsUpTo(Urls, MaxUrls), target \in TargetChoices,
       relative_to \in RelativeToChoices, force \in BOOLEAN :
        /\ clock + Len(urls) <= MaxClock
        /\ \E o \in {add_outcome(store, disk, clock, name, urls, target, relative_to,
                                force)} :
              /\ Apply(o)
              /\ last' = [Command("add", name, o) EXCEPT
                             !.urls = urls, !.target = target,
                             !.relative_to = relative_to, !.force = force]
              /\ live' = IF o.error # "None" THEN live
                         ELSE [live EXCEPT ![name] = @ \cup
                                  UNION {Range(Destinations(urls[i], target,
                                                            relative_to)) :
                                             i \in 1..Len(urls)}]

unlink ==
    \E name \in Names, pattern \in Patterns, yes \in BOOLEAN, verbose \in BOOLEAN,
       answer \in BOOLEAN :
        \E o \in {unlink_outcome(store, disk, clock, name, pattern, yes, verbose,
                                answer)} :
        /\ Apply(o)
        /\ last' = [Command("unlink", name, o) EXCEPT
                       !.pattern = pattern, !.yes = yes, !.verbose = verbose,
                       !.declined = ~yes /\ ~answer]
        /\ live' = IF o.error # "None" THEN live
                   ELSE [live EXCEPT ![name] = {q \in @ : ~Match(pattern, q)}]

delete ==
    \E name \in Names, force \in BOOLEAN, verbose \in BOOLEAN :
        \E o \in {delete_outcome(store, disk, clock, name, force, verbose)} :
        /\ Apply(o)
        /\ last' = [Command("delete", name, o) EXCEPT
                       !.force = force, !.verbose = verbose]
        /\ live' = [live EXCEPT ![name] = Remaining(o, name, @)]

Next ==
    \/ create
    \/ ls_files
    \/ add
    \/ unlink
    \/ delete

(***************************************************************************)
(* Import from the registry.  ZenodoProvider (renku/cli/_providers/        *)
(* zenodo.py) finds a record by URL or DOI, and ZenodoRecordSerializer     *)
(* turns it into a dataset; Zenodo (renku/cli/zenodo.py) searches records  *)
(* by DOI or by the github repository they supplement.  A URI is the tuple *)
(* of its path segments after the host, a file name the tuple of its       *)
(* dot-separated parts.                                                    *)
(***************************************************************************)
\* most files of a registry record
MaxRemoteFiles == 2
\* most hits of a registry search
MaxHits == 2
\* most related identifiers of a hit
MaxIdentifiers == 2

ZENODO_BASE_PATH == "api"

make_records_url(id) == <<"https://zenodo.org", ZENODO_BASE_PATH, "records", id>>

RecordUris == {<<"https://zenodo.org", "record", "11">>,
               <<"https://zenodo.org", "record", "12">>}

Dois == {<<"10.5281", "zenodo.11">>}

\* ZenodoProvider.record_id: the last segment of the path
record_id(uri) == Last(uri)

RemoteFiles ==
    {[id |-> "f1", filename |-> <<"data", "csv">>,
      download |-> "https://zenodo.org/api/files/b1/data.csv"],
     [id |-> "f2", filename |-> <<"README">>,
      download |-> "https://zenodo.org/api/files/b1/README"]}

\* a response to GET /records/{id}: a success status with the record's
\* json, or another status without one
RecordResponses(id) ==
    [status_code : SuccessCodes, id : {id},
     files : SeqsUpTo(RemoteFiles, MaxRemoteFiles), name : {"title"}]
    \cup [status_code : StatusCodes \ SuccessCodes, id : {""}, files : {<<>>},
          name : {""}]

NoRecordResponse == [status_code |-> 0, id |-> "", files |-> <<>>, name |-> ""]

NoImportError == [exc |-> "None", msg |-> ""]

LookupError(msg) == [exc |-> "LookupError", msg |-> msg]

\* make_request accepting every success status of the registry
make_request_any_success(resp) ==
    IF resp.status_code \notin SuccessCodes
    THEN [error |-> LookupError("record not found"), response |-> NoRecordResponse]
    ELSE [error |-> NoImportError, response |-> resp]

\* ZenodoProvider.make_request: the check of the response
make_request(resp) ==
    IF resp.status_code # 200
    THEN [error |-> LookupError("record not found"), response |-> NoRecordResponse]
    ELSE [error |-> NoImportError, response |-> resp]

NoRecord == [id |-> "", files |-> <<>>, uri |-> <<>>]

\* ZenodoRecordSerializer(**response.json(), zenodo=self, uri=uri)
ZenodoRecordSerializer(json, uri) == [id |-> json.id, files |-> json.files, uri |-> uri]

\* get_files returning the files of a record without files too
get_files_of_any(files) == [error |-> NoImportError, files |-> files]

\* ZenodoRecordSerializer.get_files
get_files(files) ==
    IF Len(files) = 0
    THEN [error |-> LookupError("no files have been found"), files |-> <<>>]
    ELSE [error |-> NoImportError, files |-> files]

\* Record.get_files of renku/cli/zenodo.py
Record_get_files(files) ==
    IF Len(files) = 0
    THEN [error |-> LookupError("no files have been found"), files |-> <<>>]
    ELSE [error |-> NoImportError, files |-> files]

\* ZenodoFileSerializer.type: filename.split('.')[-1]
file_type(filename) == Last(filename)

\* the DatasetFile as_dataset makes of a file of the record
serialized_file(file_, dataset_name) ==
    [url |-> file_.download, id |-> file_.id, filename |-> file_.filename,
     filetype |-> file_type(file_.filename), dataset |-> dataset_name, path |-> ""]

NoImported == [name |-> "", files |-> <<>>]

\* ---- Zenodo.search and the lookups by name ----
Identifiers == {"https://github.com/own/repo/tree/v1", "https://github.com/Own/Repo/",
                "https://github.com/other/repo/", "https://doi.org/10.5281/zenodo.11"}

Searches == {"own/repo"}

\* re.compile(r'.*github.com/(.*?/.*?)[/$]').match(identifier).group(1), or
\* LookupError when the identifier does not match
extract_github_repo(identifier) ==
    CASE identifier = "https://github.com/own/repo/tree/v1" ->
            [error |-> NoImportError, repo |-> "own/repo"]
      [] identifier = "https://github.com/Own/Repo/" ->
            [error |-> NoImportError, repo |-> "Own/Repo"]
      [] identifier = "https://github.com/other/repo/" ->
            [error |-> NoImportError, repo |-> "other/repo"]
      [] OTHER ->
            [error |-> LookupError("No records found with"), repo |-> ""]

\* str.upper
upper(s) ==
    CASE s \in {"own/repo", "Own/Repo", "OWN/REPO"} -> "OWN/REPO"
      [] s \in {"other/repo", "OTHER/REPO"} -> "OTHER/REPO"
      [] OTHER -> s

HitIds == <<"11", "12">>

\* the files of the records the search can hit
FilesOf(id) ==
    IF id = "11" THEN <<>>
    ELSE <<CHOOSE f \in RemoteFiles : f.id = "f1",
           CHOOSE f \in RemoteFiles : f.id = "f2">>

\* a hit: `described` says whether its data has metadata.related_identifiers
Hit(id, described, related) == [id |-> id, described |-> described, related |-> related]

HitLists ==
    UNION {{[i \in 1..k |-> Hit(HitIds[i], d[i], IF d[i] THEN r[i] ELSE <<>>)] :
               d \in [1..k -> BOOLEAN],
               r \in [1..k -> SeqsUpTo(Identifiers, MaxIdentifiers)]} :
           k \in 0..MaxHits}

PlainHitLists == {[i \in 1..k |-> Hit(HitIds[i], FALSE, <<>>)] : k \in 0..MaxHits}

NoHit == Hit("", FALSE, <<>>)

\* the inner loop of find_record_by_github_repo over the identifiers of one
\* record: "match", "none", or "raise" when _extract_github_repo raises
RECURSIVE scan_identifiers(_, _, _)
scan_identifiers(search, identifiers, j) ==
    IF j > Len(identifiers) THEN "none"
    ELSE LET got == extract_github_repo(identifiers[j])
         IN  IF got.error # NoImportError THEN "raise"
             ELSE IF got.repo # "" /\ upper(got.repo) = upper(search) THEN "match"
             ELSE scan_identifiers(search, identifiers, j + 1)

\* the loop over the records refusing a second matching record
RECURSIVE scan_records_unambiguous(_, _, _)
scan_records_unambiguous(search, records, i) ==
    IF Cardinality({k \in 1..Len(records) :
                       /\ records[k].described
                       /\ scan_identifiers(search, records[k].related, 1) = "match"}) > 1
    THEN [error |-> [exc |-> "AmbiguousSourceError", msg |-> ""], record |-> NoHit]
    ELSE IF i > Len(records)
    THEN [error |-> LookupError("No records found in"), record |-> NoHit]
    ELSE IF ~records[i].described
    THEN scan_records_unambiguous(search, records, i + 1)
    ELSE LET r == scan_identifiers(search, records[i].related, 1)
         IN  IF r = "match" THEN [error |-> NoImportError, record |-> records[i]]
             ELSE IF r = "raise"
             THEN [error |-> LookupError("No records found with"), record |-> NoHit]
             ELSE scan_records_unambiguous(search, records, i + 1)

\* the loop of find_record_by_github_repo over the records
RECURSIVE scan_records(_, _, _)
scan_records(search, records, i) ==
    IF i > Len(records)
    THEN [error |-> LookupError("No records found in"), record |-> NoHit]
    ELSE IF ~records[i].described THEN scan_records(search, records, i + 1)
    ELSE LET r == scan_identifiers(search, records[i].related, 1)
         IN  IF r = "match" THEN [error |-> NoImportError, record |-> records[i]]
             ELSE IF r = "raise"
             THEN [error |-> LookupError("No records found with"), record |-> NoHit]
             ELSE scan_records(search, records, i + 1)

\* Zenodo.search: no hit raises
search(records) ==
    IF records = <<>>
    THEN [error |-> LookupError("No records found for search"), records |-> <<>>]
    ELSE [error |-> NoImportError, records |-> records]

\* Zenodo.find_record_by_github_repo
find_record_by_github_repo_result(term, hits) ==
    LET recs == search(hits)
    IN  IF recs.error # NoImportError THEN [error |-> recs.error, record |-> NoHit]
        ELSE scan_records(term, recs.records, 1)

\* Zenodo.find_record_by_doi: the hits of the conceptdoi query, and those of
\* the doi query made when the first has none
find_record_by_doi_result(concept_hits, doi_hits) ==
    IF Len(concept_hits) > 0 THEN [error |-> NoImportError, record |-> concept_hits[1]]
    ELSE IF doi_hits = <<>>
    THEN [error |-> LookupError("No records found with"), record |-> NoHit]
    ELSE [error |-> NoImportError, record |-> doi_hits[1]]

Searched(fn, term, hits, more_hits, result) ==
    [fn |-> fn, term |-> term, hits |-> hits, more_hits |-> more_hits,
     error |-> result.error, record |-> result.record,
     got_files |-> FALSE, files |-> <<>>, files_error |-> NoImportError]

NoSearch ==
    Searched("none", "", <<>>, <<>>, [error |-> NoImportError, record |-> NoHit])

ImportInit ==
    /\ ipc = "idle"
    /\ import_uri = <<>>
    /\ is_doi = FALSE
    /\ lookup_uri = <<>>
    /\ lookups = <<>>
    /\ zenodo_record = NoRecord
    /\ jsonld = NoRecordResponse
    /\ imported = NoImported
    /\ import_raised = NoImportError
    /\ searched = NoSearch

import_fails(error) ==
    /\ ipc' = "failed"
    /\ import_raised' = error

\* ZenodoProvider.find_record(uri)
find_record ==
    /\ ipc = "idle"
    /\ \E uri \in RecordUris \cup Dois :
          /\ import_uri' = uri
          /\ is_doi' = (uri \in Dois)
          /\ IF uri \in Dois
             THEN ipc' = "find_record_by_doi" /\ UNCHANGED lookup_uri
             ELSE ipc' = "get_record" /\ lookup_uri' = uri
    /\ UNCHANGED <<lookups, zenodo_record, jsonld, imported, import_raised, searched>>
    /\ UNCHANGED <<export_vars, dataset_vars, add_vars, unlink_vars>>

\* ZenodoProvider.find_record_by_doi: DOIProvider().find_record(doi) gives
\* the URL the DOI resolves to, or fails
find_record_by_doi ==
    /\ ipc = "find_record_by_doi"
    /\ \/ \E url \in RecordUris :
             /\ lookup_uri' = <<record_id(url)>>
             /\ ipc' = "get_record"
             /\ UNCHANGED import_raised
       \/ /\ import_fails(LookupError("record not found"))
          /\ UNCHANGED lookup_uri
    /\ UNCHANGED <<import_uri, is_doi, lookups, zenodo_record, jsonld, imported,
                   searched>>
    /\ UNCHANGED <<export_vars, dataset_vars, add_vars, unlink_vars>>

Lookup(uri, accept, resp) ==
    [url |-> make_records_url(record_id(uri)), accept |-> accept, response |-> resp]

\* ZenodoProvider.get_record(uri)
get_record ==
    /\ ipc = "get_record"
    /\ \E resp \in RecordResponses(record_id(lookup_uri)) :
          /\ lookups' = Append(lookups, Lookup(lookup_uri, "application/json", resp))
          /\ \E r \in {make_request(resp)} :
                IF r.error # NoImportError
                THEN import_fails(r.error) /\ UNCHANGED zenodo_record
                ELSE /\ zenodo_record' = ZenodoRecordSerializer(r.response, lookup_uri)
                     /\ ipc' = "as_dataset"
                     /\ UNCHANGED import_raised
    /\ UNCHANGED <<import_uri, is_doi, lookup_uri, jsonld, imported, searched>>
    /\ UNCHANGED <<export_vars, dataset_vars, add_vars, unlink_vars>>

\* ZenodoRecordSerializer.as_dataset: files = self.get_files()
as_dataset_get_files ==
    /\ ipc = "as_dataset"
    /\ \E r \in {get_files(zenodo_record.files)} :
          IF r.error # NoImportError
          THEN import_fails(r.error)
          ELSE ipc' = "get_jsonld" /\ UNCHANGED import_raised
    /\ UNCHANGED <<import_uri, is_doi, lookup_uri, lookups, zenodo_record, jsonld,
                   imported,
                   searched>>
    /\ UNCHANGED <<export_vars, dataset_vars, add_vars, unlink_vars>>

\* ZenodoRecordSerializer.as_dataset: metadata = self.get_jsonld()
get_jsonld ==
    /\ ipc = "get_jsonld"
    /\ \E resp \in {x \in RecordResponses(record_id(zenodo_record.uri)) :
                         x.files = <<>>} :
          /\ lookups' = Append(lookups,
                               Lookup(zenodo_record.uri, "application/ld+json", resp))
          /\ \E r \in {make_request(resp)} :
                IF r.error # NoImportError
                THEN import_fails(r.error) /\ UNCHANGED jsonld
                ELSE /\ jsonld' = r.response
                     /\ ipc' = "from_jsonld"
                     /\ UNCHANGED import_raised
    /\ UNCHANGED <<import_uri, is_doi, lookup_uri, zenodo_record, imported, searched>>
    /\ UNCHANGED <<export_vars, dataset_vars, add_vars, unlink_vars>>

\* ZenodoRecordSerializer.as_dataset: Dataset.from_jsonld and the loop over
\* the files
as_dataset ==
    /\ ipc = "from_jsonld"
    /\ imported' =
           [name |-> jsonld.name,
            files |-> [i \in 1..Len(zenodo_record.files) |->
                          serialized_file(zenodo_record.files[i], jsonld.name)]]
    /\ ipc' = "done"
    /\ UNCHANGED <<import_uri, is_doi, lookup_uri, lookups, zenodo_record, jsonld,
                   import_raised, searched>>
    /\ UNCHANGED <<export_vars, dataset_vars, add_vars, unlink_vars>>

\* Zenodo.find_record_by_github_repo(search)
find_record_by_github_repo ==
    /\ ipc = "idle"
    /\ \E term \in Searches, hits \in HitLists :
          searched' = Searched("find_record_by_github_repo", term, hits, <<>>,
                               find_record_by_github_repo_result(term, hits))
    /\ ipc' = "searched"
    /\ UNCHANGED <<import_uri, is_doi, lookup_uri, lookups, zenodo_record, jsonld,
                   imported,
                   import_raised>>
    /\ UNCHANGED <<export_vars, dataset_vars, add_vars, unlink_vars>>

\* Zenodo.find_record_by_doi(doi)
search_record_by_doi ==
    /\ ipc = "idle"
    /\ \E hits \in PlainHitLists, more_hits \in PlainHitLists :
          searched' = Searched("find_record_by_doi", "", hits,
                               IF hits = <<>> THEN more_hits ELSE <<>>,
                               find_record_by_doi_result(hits, more_hits))
    /\ ipc' = "searched"
    /\ UNCHANGED <<import_uri, is_doi, lookup_uri, lookups, zenodo_record, jsonld,
                   imported,
                   import_raised>>
    /\ UNCHANGED <<export_vars, dataset_vars, add_vars, unlink_vars>>

\* Record.get_files() of the record a search returned
record_get_files ==
    /\ ipc = "searched"
    /\ searched.error = NoImportError
    /\ \E r \in {Record_get_files(FilesOf(searched.record.id))} :
          searched' = [searched EXCEPT !.got_files = TRUE, !.files = r.files,
                                       !.files_error = r.error]
    /\ ipc' = "got_files"
    /\ UNCHANGED <<import_uri, is_doi, lookup_uri, lookups, zenodo_record, jsonld,
                   imported,
                   import_raised>>
    /\ UNCHANGED <<export_vars, dataset_vars, add_vars, unlink_vars>>

ImportNext ==
    \/ find_record
    \/ find_record_by_doi
    \/ get_record
    \/ as_dataset_get_files
    \/ get_jsonld
    \/ as_dataset
    \/ find_record_by_github_repo
    \/ search_record_by_doi
    \/ record_get_files

(***************************************************************************)
(* renku dataset add, source by source.  The progress bar hands out the    *)
(* urls one after the other; the body of the loop runs                     *)
(* client.add_data_to_dataset for the url it got, and the bar advances     *)
(* when the body is done with it.                                          *)
(***************************************************************************)
NoArgs == [name |-> "", urls |-> <<>>, target |-> <<>>, relative_to |-> <<>>,
           force |-> FALSE]

NoRun == [dataset |-> EmptyDataset, disk |-> {}, clock |-> 0, done |-> 0,
          error |-> "None"]

AddInit ==
    /\ apc = "idle"
    /\ add_args = NoArgs
    /\ entered = EmptyDataset
    /\ cur = 0
    /\ pos = 0
    /\ running = NoRun

\* the bar advancing as soon as it has handed out a url
bar_counts_started(position, st) == position + 1

\* the position of the bar after the body has run for a url
bar_update(position, st) == IF st.error = "None" THEN position + 1 ELSE position

\* add(): the scope of the dataset is entered
add_enter ==
    /\ apc = "idle"
    /\ \E name \in Names, urls \in SeqsUpTo(Urls, MaxUrls), target \in TargetChoices,
          relative_to \in RelativeToChoices, force \in BOOLEAN :
          /\ clock + Len(urls) <= MaxClock
          /\ add_args' = [name |-> name, urls |-> urls, target |-> target,
                          relative_to |-> relative_to, force |-> force]
          /\ \E opened \in {with_dataset_enter(name)} :
                /\ entered' = opened.dataset
                /\ running' = [dataset |-> opened.dataset, disk |-> disk,
                               clock |-> clock, done |-> 0, error |-> opened.error]
                /\ apc' = IF opened.error # "None" THEN "raised" ELSE "loop"
    /\ cur' = 0
    /\ pos' = 0
    /\ UNCHANGED <<export_vars, dataset_vars, import_vars, unlink_vars>>

\* `for url in bar`: the next url, or the end of the loop
bar_next ==
    /\ apc = "loop"
    /\ IF cur < Len(add_args.urls)
       THEN cur' = cur + 1 /\ apc' = "body"
       ELSE cur' = cur /\ apc' = "exit"
    /\ UNCHANGED <<add_args, entered, pos, running>>
    /\ UNCHANGED <<export_vars, dataset_vars, import_vars, unlink_vars>>

\* the body of the loop for the url handed out
add_data ==
    /\ apc = "body"
    /\ \E st \in {add_data_to_dataset(running, add_args.name, add_args.urls[cur],
                                      add_args.target, add_args.relative_to,
                                      add_args.force)} :
          /\ running' = st
          /\ pos' = bar_update(pos, st)
          /\ apc' = IF st.error # "None" THEN "raised" ELSE "loop"
          /\ disk' = st.disk
          /\ clock' = st.clock
    /\ UNCHANGED <<add_args, entered, cur>>
    /\ UNCHANGED <<store, last, live>>
    /\ UNCHANGED <<export_vars, import_vars, unlink_vars>>

\* the scope of the dataset is left normally
add_exit ==
    /\ apc = "exit"
    /\ store' = with_dataset_exit(store, add_args.name, running.dataset)
    /\ apc' = "idle"
    /\ UNCHANGED <<add_args, entered, cur, pos, running>>
    /\ UNCHANGED <<disk, clock, last, live>>
    /\ UNCHANGED <<export_vars, import_vars, unlink_vars>>

\* the scope is left by the exception; FileNotFoundError becomes BadParameter
add_raise ==
    /\ apc = "raised"
    /\ running' = [running EXCEPT !.error = add_error(@)]
    /\ apc' = "idle"
    /\ UNCHANGED <<add_args, entered, cur, pos>>
    /\ UNCHANGED <<export_vars, dataset_vars, import_vars, unlink_vars>>

AddNext ==
    \/ add_enter
    \/ bar_next
    \/ add_data
    \/ add_exit
    \/ add_raise

(***************************************************************************)
(* renku dataset unlink and renku dataset delete, file by file             *)
(* (renku/cli/dataset.py).  unlink_files asks the client for the files the *)
(* glob matches, prompts, removes the record of every one of them from the *)
(* handle's index in a first loop, and deletes them from disk in a second  *)
(* loop.  Path(file).unlink() raises FileNotFoundError for a file that is  *)
(* not there, and the operating system may refuse to delete one that is.   *)
(***************************************************************************)
NoUnlinkArgs ==
    [cmd |-> "none", name |-> "", glob |-> <<>>, yes |-> FALSE, prompt |-> FALSE,
     answer |-> FALSE, force |-> FALSE, verbose |-> FALSE]

UnlinkInit ==
    /\ upc = "idle"
    /\ unlink_args = NoUnlinkArgs
    /\ handle = EmptyDataset
    /\ to_unlink = <<>>
    /\ removed = 0
    /\ unlinked = 0
    /\ on_disk = {}
    /\ unlink_raised = "None"

\* the second loop taking the files from the last to the first
unlink_reversed(files, i) == files[Len(files) + 1 - i]

\* `for file in files`: the i-th file the second loop takes
unlink_order(files, i) == files[i]

\* Path(file).unlink()
Path_unlink(d, name, file, refused) ==
    IF <<name, file>> \notin d THEN [disk |-> d, error |-> "FileNotFoundError"]
    ELSE IF refused THEN [disk |-> d, error |-> "PermissionError"]
    ELSE [disk |-> d \ {<<name, file>>}, error |-> "None"]

\* the command has not called unlink_files yet
UnlinkFresh ==
    /\ to_unlink' = <<>>
    /\ removed' = 0
    /\ unlinked' = 0
    /\ on_disk' = disk

\* the command is over: its arguments and locals are gone
UnlinkLocalsGone ==
    /\ unlink_args' = NoUnlinkArgs
    /\ handle' = EmptyDataset
    /\ to_unlink' = <<>>
    /\ removed' = 0
    /\ unlinked' = 0
    /\ on_disk' = {}

\* renku dataset unlink NAME PATTERN: the scope is entered
unlink_enter ==
    /\ upc = "idle"
    /\ \E name \in Names, pattern \in Patterns, yes \in BOOLEAN, answer \in BOOLEAN,
          verbose \in BOOLEAN :
          LET opened == with_dataset_enter(name)
          IN  /\ unlink_args' = [cmd |-> "unlink", name |-> name, glob |-> pattern,
                                 yes |-> yes, prompt |-> TRUE, answer |-> answer,
                                 force |-> FALSE, verbose |-> verbose]
              /\ handle' = opened.dataset
              /\ unlink_raised' = opened.error
              /\ upc' = IF opened.error # "None" THEN "raised" ELSE "called"
    /\ UnlinkFresh
    /\ UNCHANGED <<export_vars, dataset_vars, import_vars, add_vars>>

\* renku dataset delete NAME: the scope is entered, client.delete_dataset
\* acts, and unlink_files is called if the dataset has files
delete_enter ==
    /\ upc = "idle"
    /\ \E name \in Names, force \in BOOLEAN, verbose \in BOOLEAN :
          LET opened == with_dataset_enter(name)
              deleted == delete_dataset(store, name, opened.dataset, force)
              error == IF opened.error # "None" THEN opened.error ELSE deleted.error
          IN  /\ unlink_args' = [cmd |-> "delete", name |-> name, glob |-> <<"*">>,
                                 yes |-> TRUE, prompt |-> FALSE, answer |-> FALSE,
                                 force |-> force, verbose |-> verbose]
              /\ handle' = opened.dataset
              /\ unlink_raised' = error
              /\ store' = IF error # "None" THEN store ELSE deleted.store
              /\ upc' = IF error # "None" THEN "raised"
                        ELSE IF opened.dataset.files # <<>> THEN "called"
                        ELSE "return"
    /\ UnlinkFresh
    /\ UNCHANGED <<disk, clock, last, live>>
    /\ UNCHANGED <<export_vars, import_vars, add_vars>>

\* unlink_files: client.files_to_unlink and the prompt
unlink_files_called ==
    /\ upc = "called"
    /\ to_unlink' = files_to_unlink(handle, unlink_args.glob)
    /\ on_disk' = disk
    /\ IF unlink_args.prompt /\ ~unlink_args.yes /\ ~unlink_args.answer
       THEN upc' = "raised" /\ unlink_raised' = "Abort"
       ELSE upc' = "remove" /\ UNCHANGED unlink_raised
    /\ UNCHANGED <<unlink_args, handle, removed, unlinked>>
    /\ UNCHANGED <<export_vars, dataset_vars, import_vars, add_vars>>

\* the first loop: dataset.remove_file for the next file, or the loop ends
remove_next ==
    /\ upc = "remove"
    /\ IF removed < Len(to_unlink)
       THEN /\ handle' = [handle EXCEPT
                             !.files = remove_file(@, to_unlink[removed + 1])]
            /\ removed' = removed + 1
            /\ UNCHANGED upc
       ELSE /\ upc' = "unlink"
            /\ UNCHANGED <<handle, removed>>
    /\ UNCHANGED <<unlink_args, to_unlink, unlinked, on_disk, unlink_raised>>
    /\ UNCHANGED <<export_vars, dataset_vars, import_vars, add_vars>>

\* the second loop: Path(file).unlink() for the next file, or the loop ends
unlink_next ==
    /\ upc = "unlink"
    /\ IF unlinked < Len(to_unlink)
       THEN \E refused \in BOOLEAN :
               LET gone == Path_unlink(disk, unlink_args.name,
                                       unlink_order(to_unlink, unlinked + 1), refused)
               IN  /\ disk' = gone.disk
                   /\ unlink_raised' = gone.error
                   /\ IF gone.error # "None"
                      THEN upc' = "raised" /\ UNCHANGED unlinked
                      ELSE unlinked' = unlinked + 1 /\ UNCHANGED upc
       ELSE /\ upc' = "return"
            /\ UNCHANGED <<disk, unlinked, unlink_raised>>
    /\ UNCHANGED <<unlink_args, handle, to_unlink, removed, on_disk>>
    /\ UNCHANGED <<store, clock, last, live>>
    /\ UNCHANGED <<export_vars, import_vars, add_vars>>

\* unlink_files has returned, or was not called: the report of the command,
\* then the exit of the scope
unlink_exit ==
    /\ upc = "return"
    /\ IF unlink_args.cmd = "delete" /\ unlink_args.verbose /\ handle.files = <<>>
          /\ to_unlink = <<>>
       THEN \* `unlinked` of delete() is bound only when the dataset has files
            /\ unlink_raised' = "UnboundLocalError"
            /\ UNCHANGED store
       ELSE /\ store' = with_dataset_exit(store, unlink_args.name, handle)
            /\ UNCHANGED unlink_raised
    /\ upc' = "idle"
    /\ UnlinkLocalsGone
    /\ UNCHANGED <<disk, clock, last, live>>
    /\ UNCHANGED <<export_vars, import_vars, add_vars>>

\* the exception leaves the scope: the handle is not written back
unlink_raise ==
    /\ upc = "raised"
    /\ upc' = "idle"
    /\ UnlinkLocalsGone
    /\ UNCHANGED unlink_raised
    /\ UNCHANGED <<export_vars, dataset_vars, import_vars, add_vars>>

\* renku dataset add, between two commands
add_command ==
    /\ upc = "idle"
    /\ \E name \in Names, urls \in SeqsUpTo(Urls, MaxUrls), target \in TargetChoices,
          relative_to \in RelativeToChoices, force \in BOOLEAN :
          /\ clock + Len(urls) <= MaxClock
          /\ \E o \in {add_outcome(store, disk, clock, name, urls, target, relative_to,
                                  force)} :
                /\ store' = o.store
                /\ disk' = o.disk
                /\ clock' = o.clock
    /\ UNCHANGED <<last, live>>
    /\ UNCHANGED <<export_vars, import_vars, add_vars, unlink_vars>>

UnlinkNext ==
    \/ add_command
    \/ unlink_enter
    \/ delete_enter
    \/ unlink_files_called
    \/ remove_next
    \/ unlink_next
    \/ unlink_exit
    \/ unlink_raise

Init == ExportInit /\ DatasetInit /\ ImportInit /\ AddInit /\ UnlinkInit

Spec == Init /\ [][Next]_vars

SpecExport == Init /\ [][ExportNext]_vars

SpecImport == Init /\ [][ImportNext]_vars

SpecAdd == Init /\ [][AddNext]_vars

SpecUnlink == Init /\ [][UnlinkNext]_vars

(***************************************************************************)
(* Properties of the dataset commands.  `last` is the command of the step  *)
(* that led to a state, so in a step last' is the command being run,       *)
(* store and disk are the project before it, store' and disk' after it.    *)
(***************************************************************************)
Opens(name) == store[name].state # "deleted"

IndexPaths(name) == Range(PathsOf(store[name].files))

C6_UnlinkRemovesExactlyMatches ==
    [][\A n \in Names :
          last'.cmd = "unlink" /\ last'.name = n /\ Opens(n) /\ last'.error = "None" =>
              /\ store'[n].files =
                     SelectSeq(store[n].files, LAMBDA r : ~Match(last'.pattern, r.path))
              /\ Range(last'.output) = {q \in IndexPaths(n) : Match(last'.pattern, q)}
              /\ Len(last'.output) = Cardinality(Range(last'.output))
              /\ Range(PathsOf(store'[n].files)) = IndexPaths(n) \ Range(last'.output)]_vars

C6_Witness ==
    /\ last.cmd = "unlink"
    /\ last.error = "None"
    /\ last.pattern = <<"dir", "*">>
    /\ last.output = << <<"dir", "x">>, <<"dir", "y">> >>
    /\ PathsOf(store["ds"].files) = << <<"a.txt">> >>

\* C7: an unlink without --yes whose prompt is declined aborts after the
\* prompt has shown the number of matched files and before anything is
\* changed: the store and the disk are as before.  With --yes, and in
\* delete (which supplies no prompt), the prompt is not consulted.
C7_DeclinedUnlinkChangesNothing ==
    [][\A n \in Names :
          /\ last'.cmd = "unlink" /\ last'.name = n /\ Opens(n) /\ last'.declined =>
                /\ last'.error = "Abort"
                /\ last'.prompted
                /\ last'.asked =
                       Cardinality({q \in IndexPaths(n) : Match(last'.pattern, q)})
                /\ store' = store
                /\ disk' = disk
          /\ last'.cmd = "unlink" /\ last'.yes =>
                ~last'.prompted /\ last'.asked = -1 /\ last'.error # "Abort"
          /\ last'.cmd # "unlink" => ~last'.prompted /\ last'.error # "Abort"]_vars

C7_Witness ==
    /\ last.cmd = "unlink"
    /\ last.declined
    /\ last.error = "Abort"
    /\ last.asked = 2
    /\ Len(store["ds"].files) = 3

\* C8: the paths of a dataset's file records are pairwise distinct and are
\* the paths added and not since removed; ls-files lists exactly these,
\* each once.
C8_PathsUniqueAndListed ==
    \A n \in Names :
        /\ \A i, j \in 1..Len(store[n].files) :
              store[n].files[i].path = store[n].files[j].path => i = j
        /\ IndexPaths(n) = live[n]
        /\ last.cmd = "ls_files" /\ last.name = n /\ last.error = "None" =>
              /\ Range(last.output) = live[n]
              /\ Len(last.output) = Cardinality(live[n])

C8_Witness ==
    /\ last.cmd = "ls_files"
    /\ last.error = "None"
    /\ last.output = << <<"dir", "x">> >>
    /\ clock = 2
    /\ <<"ds", <<"a.txt">>>> \notin disk

\* the destinations of all the sources of an add command
AllDestinations(urls, target, relative_to) ==
    UNION {Range(Destinations(urls[i], target, relative_to)) : i \in 1..Len(urls)}

\* every target names, by matching suffix, an entry of the source
Fits(url, target) ==
    \A k \in 1..Len(target) :
        \E e \in Range(Source(url).entries) : IsSuffix(target[k], e)

\* every source of the command exists, holds the targets and lies under
\* the relative root: nothing but a conflict can fail it
Plannable(urls, target, relative_to) ==
    \A i \in 1..Len(urls) :
        /\ Source(urls[i]).kind # "missing"
        /\ Fits(urls[i], target)
        /\ ~root_mismatch(Source(urls[i]), resolve(Source(urls[i]), target).entries,
                          relative_to)

\* a destination of the command is in the index already, or is the
\* destination of an earlier source of the same command
Collides(n, urls, target, relative_to) ==
    \E i \in 1..Len(urls) :
        \E q \in Range(Destinations(urls[i], target, relative_to)) :
            \/ q \in IndexPaths(n)
            \/ \E j \in 1..(i - 1) : q \in Range(Destinations(urls[j], target, relative_to))

C10_TargetCountMustEqualSourceCount ==
    /\ last.cmd = "add"
    /\ last.error # "DatasetDeletedError"
    /\ last.target # <<>>
    /\ Len(last.urls) >= 1
    /\ \A i \in 1..Len(last.urls) : Source(last.urls[i]).kind # "missing"
    /\ Len(last.target) # Len(last.urls)
    => last.error = "TargetMismatchError"

\* C10 amended: the --target values are applied to each source, and each
\* must name an entry of it: add fails with TargetMismatchError only when a
\* target names no entry of a source, it does so when that holds of the
\* first source, and it then commits nothing; the number of targets is not
\* compared with the number of sources, and one source with several targets
\* that name files of it gets one record per target (per target under the
\* relative root, when one is given for a repository).
C10_TargetsNameEntries ==
    [][\A n \in Names :
          last'.cmd = "add" /\ last'.name = n /\ Opens(n) /\ last'.target # <<>> =>
              /\ last'.error = "TargetMismatchError" =>
                    /\ \E i \in 1..Len(last'.urls) :
                          /\ Source(last'.urls[i]).kind # "missing"
                          /\ ~Fits(last'.urls[i], last'.target)
                    /\ store' = store
              /\ /\ Len(last'.urls) >= 1
                 /\ Source(last'.urls[1]).kind # "missing"
                 /\ ~Fits(last'.urls[1], last'.target)
                 => last'.error = "TargetMismatchError" /\ store' = store /\ disk' = disk
              /\ /\ Len(last'.urls) = 1
                 /\ Plannable(last'.urls, last'.target, last'.relative_to)
                 /\ ~Collides(n, last'.urls, last'.target, last'.relative_to)
                 => /\ last'.error = "None"
                    /\ Len(store'[n].files) = Len(store[n].files) +
                           Len(Destinations(last'.urls[1], last'.target,
                                            last'.relative_to))
                    /\ last'.relative_to = <<>> =>
                           Len(store'[n].files) = Len(store[n].files) + Len(last'.target)
                    /\ Range(PathsOf(store'[n].files)) =
                           IndexPaths(n) \cup
                           AllDestinations(last'.urls, last'.target, last'.relative_to)]_vars

C10_Witness ==
    /\ last.cmd = "add"
    /\ last.error = "None"
    /\ Len(last.urls) = 1
    /\ Len(last.target) = 2
    /\ last.relative_to = <<>>
    /\ PathsOf(store["ds"].files) = << <<"dir", "x">>, <<"dir", "y">> >>

\* C11 as claimed: no file record of a dataset has a path with a
\* parent-directory segment.
C11_NoRecordLeavesStorageRoot ==
    \A n \in Names :
        \A i \in 1..Len(store[n].files) : ~Traverses(store[n].files[i].path)

\* C11 amended: add rejects no destination for leaving the dataset's
\* directory: it never ends with PathTraversalError, and adding a file of
\* the project's own repository succeeds and commits a record whose path is
\* the file's path relative to the dataset's directory, parent-directory
\* segments included; the records of every other kind of source have paths
\* without such a segment.
C11_RepositoryFileKeepsTraversalPath ==
    [][\A n \in Names :
          last'.cmd = "add" /\ last'.name = n /\ Opens(n) =>
              /\ last'.error # "PathTraversalError"
              /\ /\ last'.urls = <<"a">>
                 /\ last'.target = <<>>
                 /\ last'.relative_to = <<>>
                 /\ last'.force \/ <<"..", "..", "..", "a">> \notin IndexPaths(n)
                 => /\ last'.error = "None"
                    /\ DatasetFile(<<"..", "..", "..", "a">>, clock + 1, "a")
                           \in Range(store'[n].files)
              /\ \A r \in Range(store'[n].files) :
                    Traverses(r.path) <=> Source(r.url).kind = "repo"]_vars

C11_Witness ==
    /\ last.cmd = "add"
    /\ last.error = "None"
    /\ last.urls = <<"a">>
    /\ ~last.force
    /\ PathsOf(store["ds"].files) = << <<"..", "..", "..", "a">> >>
    /\ <<"ds", <<"..", "..", "..", "a">>>> \in disk

\* the entries of a source that an add command selects
Selected(url, target) == resolve(Source(url), target).entries

\* C12 as claimed: an add of one source with --relative-to R, one of whose
\* files is not under R, fails with RelativeRootMismatchError.
C12_OutsideRootFails ==
    /\ last.cmd = "add"
    /\ last.error # "DatasetDeletedError"
    /\ last.relative_to # <<>>
    /\ Len(last.urls) = 1
    /\ Source(last.urls[1]).kind # "missing"
    /\ Fits(last.urls[1], last.target)
    /\ \E e \in Range(Selected(last.urls[1], last.target)) :
          ~UnderRoot(last.relative_to, e)
    => last.error = "RelativeRootMismatchError"

\* C12 amended: with --relative-to R the destination of a file under R is
\* its natural path with the prefix R stripped, the directories below R
\* kept.  A source that is not a git repository and has a file outside R
\* fails with RelativeRootMismatchError and nothing is added; of a git
\* repository the files under R are added, the files outside R are left
\* out, and the add does not fail for them.
C12_RelativeToStripsRoot ==
    [][\A n \in Names :
          /\ last'.cmd = "add" /\ last'.name = n /\ Opens(n)
          /\ last'.relative_to # <<>>
          =>
          /\ last'.error = "RelativeRootMismatchError" =>
                /\ store' = store
                /\ \E i \in 1..Len(last'.urls) :
                      /\ Source(last'.urls[i]).kind \notin {"git", "missing"}
                      /\ \E e \in Range(Selected(last'.urls[i], last'.target)) :
                            ~UnderRoot(last'.relative_to, e)
          /\ /\ Len(last'.urls) = 1
             /\ Source(last'.urls[1]).kind # "missing"
             /\ Fits(last'.urls[1], last'.target)
             => LET R == last'.relative_to
                    sel == Range(Selected(last'.urls[1], last'.target))
                    under == {e \in sel : UnderRoot(R, e)}
                    dests == {DropPrefix(e, Len(R)) : e \in under}
                IN  IF Source(last'.urls[1]).kind # "git" /\ under # sel
                    THEN /\ last'.error = "RelativeRootMismatchError"
                         /\ store' = store
                         /\ disk' = disk
                    ELSE IF dests \cap IndexPaths(n) # {} /\ ~last'.force
                    THEN last'.error = "DestinationConflictError"
                    ELSE /\ last'.error = "None"
                         /\ Range(PathsOf(store'[n].files)) = IndexPaths(n) \cup dests
                         /\ \A q \in dests :
                               /\ <<n, q>> \in disk'
                               /\ DatasetFile(q, clock + 1, last'.urls[1])
                                      \in Range(store'[n].files)]_vars

C12_Witness ==
    /\ last.cmd = "add"
    /\ last.error = "None"
    /\ last.urls = <<"git+ssh://host.io/namespace/project.git">>
    /\ last.target = <<>>
    /\ last.relative_to = <<"dir">>
    /\ PathsOf(store["ds"].files) = << <<"x">>, <<"y">>, <<"sub", "z">> >>

\* C13: ls-files succeeds on a dataset that can be opened and lists its
\* files in the order of the file index, which is non-decreasing in the
\* added time whatever the adds before it were (a forced re-add of an
\* earlier path included); it changes neither the file index nor the disk,
\* and an ls-files that directly follows an ls-files of the same dataset
\* returns the same rows and leaves the store as it is.
C13_LsFilesSortedAndStable ==
    [][\A n \in Names :
          last'.cmd = "ls_files" /\ last'.name = n /\ Opens(n) =>
              /\ last'.error = "None"
              /\ last'.output = PathsOf(store[n].files)
              /\ Len(last'.added) = Len(store[n].files)
              /\ \A i \in 1..Len(last'.added) : last'.added[i] = store[n].files[i].added
              /\ \A i, j \in 1..Len(last'.added) :
                    i < j => last'.added[i] <= last'.added[j]
              /\ store'[n].files = store[n].files
              /\ disk' = disk
              /\ last.cmd = "ls_files" /\ last.name = n /\ last.error = "None" =>
                    /\ last'.output = last.output
                    /\ last'.added = last.added
                    /\ store' = store]_vars

C13_Witness ==
    /\ last.cmd = "ls_files"
    /\ last.error = "None"
    /\ last.output = << <<"dir", "y">>, <<"dir", "sub", "z">>, <<"dir", "x">> >>
    /\ last.added = <<1, 1, 2>>

\* the destinations of the first k sources of an add command
DestinationsUpTo(urls, k, target, relative_to) ==
    UNION {Range(Destinations(urls[i], target, relative_to)) : i \in 1..k}

JsonldLookups == SelectSeq(lookups, LAMBDA l : l.accept = "application/ld+json")

\* C15: the import of a record without files fails with LookupError 'no
\* files have been found' before the record's metadata is requested, and no
\* dataset is made; a dataset is made only of a record with n >= 1 files
\* and has n files, the i-th made of the i-th file of the record, each with
\* the empty path.  Record.get_files of a search result fails alike for a
\* record without files and returns the files of any other.
C15_ImportNeedsFiles ==
    /\ zenodo_record # NoRecord /\ zenodo_record.files = <<>> /\ ipc # "as_dataset" =>
          /\ ipc = "failed"
          /\ import_raised = LookupError("no files have been found")
          /\ JsonldLookups = <<>>
    /\ JsonldLookups # <<>> => zenodo_record.files # <<>>
    /\ ipc # "done" => imported = NoImported
    /\ ipc = "done" =>
          /\ Len(zenodo_record.files) >= 1
          /\ zenodo_record.files = lookups[1].response.files
          /\ Len(imported.files) = Len(zenodo_record.files)
          /\ \A i \in 1..Len(imported.files) :
                /\ imported.files[i].path = ""
                /\ imported.files[i].id = zenodo_record.files[i].id
                /\ imported.files[i].url = zenodo_record.files[i].download
                /\ imported.files[i].filename = zenodo_record.files[i].filename
    /\ searched.got_files =>
          IF FilesOf(searched.record.id) = <<>>
          THEN /\ searched.files_error = LookupError("no files have been found")
               /\ searched.files = <<>>
          ELSE /\ searched.files_error = NoImportError
               /\ searched.files = FilesOf(searched.record.id)

C15_Witness ==
    /\ ipc = "failed"
    /\ import_raised = LookupError("no files have been found")
    /\ zenodo_record.id = "12"
    /\ zenodo_record.files = <<>>
    /\ Len(lookups) = 1
    /\ lookups[1].response.status_code = 200

\* C16 as claimed: a record lookup answered with a success status (2xx)
\* returns a record.
C16_SuccessStatusReturnsRecord ==
    /\ lookups # <<>>
    /\ lookups[1].response.status_code \in SuccessCodes
    => zenodo_record # NoRecord

\* C16 amended: a record lookup answered with any status other than 200
\* (201 and 202 included) fails with LookupError 'record not found' and no
\* record is returned; answered with 200 it returns the record built from
\* the response and the uri.  A DOI is resolved first, and the lookup is
\* made for the id of the record it resolves to; a URL is looked up by its
\* own record id.
C16_LookupNeeds200 ==
    /\ \A i \in 1..Len(lookups) :
          lookups[i].response.status_code # 200 =>
              /\ i = Len(lookups)
              /\ ipc = "failed"
              /\ import_raised = LookupError("record not found")
    /\ lookups # <<>> =>
          /\ lookups[1].accept = "application/json"
          /\ lookups[1].url = make_records_url(record_id(lookup_uri))
          /\ IF lookups[1].response.status_code = 200
             THEN /\ zenodo_record.uri = lookup_uri
                  /\ zenodo_record.id = record_id(lookup_uri)
                  /\ zenodo_record.files = lookups[1].response.files
             ELSE zenodo_record = NoRecord
    /\ lookups = <<>> => zenodo_record = NoRecord
    /\ ipc = "find_record_by_doi" => is_doi /\ lookups = <<>>
    /\ lookup_uri # <<>> =>
          IF is_doi
          THEN /\ import_uri \in Dois
               /\ \E url \in RecordUris : lookup_uri = <<record_id(url)>>
          ELSE lookup_uri = import_uri

C16_Witness ==
    /\ is_doi
    /\ ipc = "failed"
    /\ Len(lookups) = 1
    /\ lookups[1].response.status_code = 201
    /\ lookups[1].url = make_records_url("12")
    /\ import_raised = LookupError("record not found")

\* a hit one of whose related identifiers names the repository searched for
Names_repo(identifier, term) ==
    /\ extract_github_repo(identifier).error = NoImportError
    /\ upper(extract_github_repo(identifier).repo) = upper(term)

Candidate(hit, term) ==
    hit.described /\ \E j \in 1..Len(hit.related) : Names_repo(hit.related[j], term)

\* every related identifier of the hits is the URL of a github repository
AllGithub(hits) ==
    \A k \in 1..Len(hits) : \A j \in 1..Len(hits[k].related) :
        extract_github_repo(hits[k].related[j]).error = NoImportError

\* C18 as claimed: a lookup by name whose search has more than one
\* candidate fails with AmbiguousSourceError.
C18_AmbiguousSearchFails ==
    /\ searched.fn = "find_record_by_github_repo" /\ AllGithub(searched.hits)
       /\ Cardinality({k \in 1..Len(searched.hits) :
                          Candidate(searched.hits[k], searched.term)}) > 1
       => searched.error.exc = "AmbiguousSourceError"
    /\ searched.fn = "find_record_by_doi" /\ Len(searched.hits) > 1
       => searched.error.exc = "AmbiguousSourceError"

\* C18 amended: a lookup by name never fails with AmbiguousSourceError: of
\* several candidates it returns the first in the order of the search
\* results.  By DOI that is the first hit of the concept-DOI query, else
\* the first hit of the DOI query, and LookupError when both are empty.  By
\* repository it is the first hit with a related identifier that names the
\* repository (case ignored), and LookupError when there is none; a related
\* identifier that is not a github URL, met before a match, ends the lookup
\* with LookupError as well.
C18_FirstCandidateReturned ==
    /\ searched.error.exc \in {"None", "LookupError"}
    /\ searched.fn = "find_record_by_doi" =>
          IF searched.hits # <<>>
          THEN searched.error = NoImportError /\ searched.record = searched.hits[1]
          ELSE IF searched.more_hits # <<>>
          THEN searched.error = NoImportError /\ searched.record = searched.more_hits[1]
          ELSE searched.error.exc = "LookupError" /\ searched.record = NoHit
    /\ searched.fn = "find_record_by_github_repo" =>
          LET cands == {k \in 1..Len(searched.hits) :
                           Candidate(searched.hits[k], searched.term)}
          IN  /\ searched.error = NoImportError =>
                    \E k \in cands :
                        /\ searched.record = searched.hits[k]
                        /\ \A m \in cands : k <= m
              /\ searched.error # NoImportError =>
                    /\ searched.record = NoHit
                    /\ cands = {} \/ ~AllGithub(searched.hits)
              /\ AllGithub(searched.hits) /\ cands # {} =>
                    searched.error = NoImportError

C18_Witness ==
    /\ searched.fn = "find_record_by_github_repo"
    /\ Len(searched.hits) = 2
    /\ AllGithub(searched.hits)
    /\ \A k \in 1..2 : Candidate(searched.hits[k], searched.term)
    /\ searched.error = NoImportError
    /\ searched.record = searched.hits[1]

StartedAt == running.clock - running.done

\* the state of a running add command: the bar, the sources handed out and
\* completed, and the file index of the handle
AddInOrder ==
    apc # "idle" =>
        /\ pos = running.done
        /\ cur <= Len(add_args.urls)
        /\ apc = "body" => cur = running.done + 1 /\ running.error = "None"
        /\ apc \in {"loop", "exit"} => cur = running.done /\ running.error = "None"
        /\ apc = "raised" => cur = running.done + 1 /\ running.error # "None"
        /\ apc = "exit" => pos = Len(add_args.urls)
        /\ pos = Len(add_args.urls) => running.error = "None"
        /\ LET files == running.dataset.files
           IN  /\ \A i, j \in 1..Len(files) : i < j => files[i].added <= files[j].added
               /\ \A i \in 1..Len(files) :
                     files[i].added > StartedAt =>
                         /\ files[i].added - StartedAt <= running.done
                         /\ files[i].url = add_args.urls[files[i].added - StartedAt]
                         /\ files[i].path \in
                                Range(Destinations(files[i].url, add_args.target,
                                                   add_args.relative_to))
               /\ SelectSeq(files, LAMBDA r : r.added <= StartedAt) =
                      SelectSeq(entered.files, LAMBDA r : r.path \notin
                          DestinationsUpTo(add_args.urls, running.done, add_args.target,
                                           add_args.relative_to))
               /\ \A k \in 1..running.done :
                     \A q \in Range(Destinations(add_args.urls[k], add_args.target,
                                                 add_args.relative_to)) :
                         \E i \in 1..Len(files) :
                             files[i].path = q /\ files[i].added >= StartedAt + k

\* C19: add hands its sources out in the order given, one at a time: a
\* source is handed out only when all before it are completed; the records
\* of the handle are in the order of the sources that made them; the
\* position of the progress bar is the number of completed sources at every
\* step, it advances by exactly one when a source completes and not
\* otherwise, and it is the number of sources only if none has failed.
C19_SourcesInOrderWithProgress ==
    [][/\ AddInOrder'
       /\ apc # "idle" =>
             /\ pos' \in {pos, pos + 1}
             /\ pos' = pos + 1 <=> apc = "body" /\ running'.error = "None"
             /\ cur' \in {cur, cur + 1}
             /\ cur' = cur + 1 <=> apc = "loop" /\ cur < Len(add_args.urls)
             /\ add_args' = add_args]_vars

C19_Witness ==
    /\ apc = "body"
    /\ add_args.urls = <<"git+ssh://host.io/namespace/project.git", "/tmp/a.txt">>
    /\ cur = 2
    /\ pos = 1
    /\ running.done = 1
    /\ Len(running.dataset.files) = 3

(***************************************************************************)
(* Properties of delete --verbose.                                         *)
(***************************************************************************)
\* delete may remove the dataset `name`: the handle opens and
\* client.delete_dataset accepts it
MayDelete(name, force) ==
    LET opened == with_dataset_enter(name)
    IN  /\ opened.error = "None"
        /\ delete_dataset(store, name, opened.dataset, force).error = "None"

\* C20: delete in verbose mode, on every dataset it may delete, completes
\* and reports the number of files the dataset had: 'Deleted N file(s)'
\* when it had N > 0 files, 'No files to delete.' (a count of 0) when it
\* had none.
C20_VerboseDeleteReportsCount ==
    [][last'.cmd = "delete" /\ last'.verbose /\ MayDelete(last'.name, last'.force)
           => /\ last'.error = "None"
              /\ last'.reported = Len(with_dataset_enter(last'.name).dataset.files)]_vars

\* a verbose delete of a dataset without files has ended in the unbound
\* `unlinked`, after the dataset was removed from the store
C20_Witness ==
    /\ last.cmd = "delete"
    /\ last.verbose
    /\ last.error = "UnboundLocalError"
    /\ last.reported = -1

(***************************************************************************)
(* Properties of unlink_files, file by file.                               *)
(***************************************************************************)
\* the files of the matched set from the i-th to the j-th, as they are on
\* the disk of the dataset
OnDiskOf(i, j) == {<<unlink_args.name, to_unlink[m]>> : m \in i..j}

\* no matched path is in the index of the handle
IndexCleared ==
    \A i \in 1..Len(to_unlink) : to_unlink[i] \notin Range(PathsOf(handle.files))

\* deleting the next file from disk has failed
DiskFailed ==
    upc = "raised" /\ unlink_raised \in {"FileNotFoundError", "PermissionError"}

\* C21 as claimed: when deleting the k-th file from disk fails, the index
\* of the handle lacks all matched paths and the files k..n exist on disk.
C21_FilesFromFailedOneExist ==
    DiskFailed =>
        /\ IndexCleared
        /\ OnDiskOf(unlinked + 1, Len(to_unlink)) \subseteq disk

\* the state of a running unlink or forced delete
UnlinkInOrder ==
    /\ upc \in {"called", "remove", "unlink", "return"} \/ DiskFailed =>
          /\ unlinked <= Len(to_unlink)
          /\ removed <= Len(to_unlink)
          /\ disk = on_disk \ OnDiskOf(1, unlinked)
    /\ upc = "remove" => unlinked = 0 /\ disk = on_disk
    /\ upc = "unlink" \/ DiskFailed => removed = Len(to_unlink) /\ IndexCleared
    /\ unlinked > 0 => removed = Len(to_unlink) /\ IndexCleared
    /\ upc = "return" =>
          /\ unlinked = Len(to_unlink)
          /\ IndexCleared
          /\ OnDiskOf(1, Len(to_unlink)) \cap disk = {}
    /\ DiskFailed =>
          /\ unlinked < Len(to_unlink)
          /\ OnDiskOf(1, unlinked) \cap disk = {}
          /\ OnDiskOf(unlinked + 1, Len(to_unlink)) \cap disk =
                 OnDiskOf(unlinked + 1, Len(to_unlink)) \cap on_disk
          /\ unlink_raised = "FileNotFoundError" <=>
                 <<unlink_args.name, to_unlink[unlinked + 1]>> \notin disk

\* C21 amended: in unlink_files, for unlink and for forced delete, the
\* record of every matched file is removed from the index of the handle
\* before the first file is deleted from disk; the files are deleted one by
\* one in the order of the matched set; on normal return every matched path
\* is absent from the index and from the disk; and when deleting the k-th
\* file fails, the index lacks all matched paths, the files 1..k-1 are gone
\* and the files k..n are on disk exactly as they were before the call: the
\* k-th is there unless the failure is that it was not (FileNotFoundError).
C21_IndexClearedBeforeDisk ==
    [][/\ UnlinkInOrder'
       /\ upc # "idle" /\ disk' # disk =>
             /\ upc = "unlink"
             /\ removed = Len(to_unlink)
             /\ IndexCleared
             /\ unlinked' = unlinked + 1
             /\ disk' = disk \ {<<unlink_args.name, to_unlink[unlinked + 1]>>}
             /\ handle' = handle
       /\ upc \in {"called", "remove", "unlink"} /\ handle' # handle =>
             /\ upc = "remove"
             /\ unlinked = 0
             /\ disk' = disk
             /\ removed' = removed + 1]_vars

C21_Witness ==
    /\ DiskFailed
    /\ Len(to_unlink) = 3
    /\ unlinked = 1
    /\ IndexCleared
    /\ OnDiskOf(2, 3) \subseteq disk
    /\ OnDiskOf(1, 1) \cap disk = {}

====
